---- MODULE Spec2Model ----
(***************************************************************************)
(* Product-enquiry service: the Flask handlers of App/app.py over the one  *)
(* table product_enquiry, reached through the module-level SQLAlchemy      *)
(* session of db_connections/configurations.py.                            *)
(*                                                                         *)
(* The committed table is db; session is the process-wide Session object   *)
(* (its transaction state, its pending objects, the rows its open          *)
(* transaction sees).  Every handler is a small program over these two,    *)
(* one step per statement that touches the session or the mail server.     *)
(***************************************************************************)
EXTENDS Integers, Sequences, FiniteSets, TLC

\* ------------------------------------------------------------------ bounds
MaxMobile == 2      \* mobile numbers 1..MaxMobile
MaxDate   == 2      \* calendar days 1..MaxDate
MaxBatch  == 2      \* longest POST /post-records array
NumThreads == 2     \* request threads of the threaded development server
MaxStored == 12     \* most records in the table of the limited reads

MobileNos == 1..MaxMobile
Dates     == 1..MaxDate
Threads   == 1..NumThreads
Null      == 0      \* SQL NULL / Python None in a date or integer column

\* The values of a BOOLEAN column, as JSON writes them: true, false and
\* NULL / None.
True  == "true"
False == "false"
None  == "null"

\* ------------------------------------------------------------- the table
\* The mapped columns of ProductEnquiryForms that a handler reads, filters
\* on or writes (Gender, Occupation, State, District, City, ExistingVehicle
\* are carried by the table and never looked at).
Columns ==
  {"CustomerName", "Age", "MobileNo", "Email", "VehicleModel", "DealerState",
   "DealerTown", "DealerName", "BriefAboutEnquiry", "ExpectedDateofPurchase",
   "SentToDealer", "DealerCode", "LeadId", "CreatedDate", "IsPurchased"}

\* A JSON object of the POST body carrying every key; m is its MobileNo and
\* e its ExpectedDateofPurchase.
Item(m, e) ==
  [CustomerName |-> "Asha", Age |-> 30, MobileNo |-> m, Email |-> "asha@x.in",
   VehicleModel |-> "Thar-4X", DealerState |-> "KA", DealerTown |-> "Mysuru",
   DealerName |-> "Sai Motors", BriefAboutEnquiry |-> "new",
   ExpectedDateofPurchase |-> e, SentToDealer |-> False, DealerCode |-> 1,
   LeadId |-> 11, CreatedDate |-> 1, IsPurchased |-> False]

\* The same object with one key left out.
Without(item, key) == [c \in (DOMAIN item) \ {key} |-> item[c]]

GoodItems == {Item(m, e) : m \in MobileNos, e \in Dates}
BadItems  == {Without(Item(1, 1), "DealerName")}
Items     == GoodItems \cup BadItems

\* item["CustomerName"] ... item["IsPurchased"]: a KeyError unless every key
\* the constructor call reads is there.
HasAllKeys(item) == Columns \subseteq DOMAIN item

\* ProductEnquiryForms(CustomerName=item["CustomerName"], ...)
ProductEnquiryForms(item) == [c \in Columns |-> item[c]]

Keys(rows) == {r.MobileNo : r \in rows}

\* Text that a LIKE pattern is matched against is a sequence of characters.
Asha == <<"A", "s", "h", "a">>
Ravi == <<"R", "a", "v", "i">>
Thar == <<"T", "h", "a", "r">>
XUV  == <<"X", "U", "V">>

\* The objects the read endpoints are exercised on: the enquiry of customer
\* m, created on day c.  The customers differ in name, e-mail, vehicle
\* model and LeadId; the days reach one past the dates a request can name.
LeadDates == 1..(MaxDate + 1)
Lead(m, c) ==
  [Item(m, 1) EXCEPT !.CreatedDate = c, !.LeadId = 10 + m,
                     !.CustomerName = IF m = 1 THEN Asha ELSE Ravi,
                     !.Email = IF m = 1 THEN "asha@x.in" ELSE "ravi@x.in",
                     !.VehicleModel = IF m = 1 THEN Thar ELSE XUV]
Leads == {Lead(m, c) : m \in MobileNos, c \in LeadDates}

\* Records for the reads by dealer and purchase: MobileNo m, created on day
\* c (inside the dates a request names or, all but the first, past them),
\* IsPurchased p, dealer dc.
DealDates(m) == IF m = 1 THEN {1} ELSE {1, MaxDate + 1}
DealerCodes == {1, 2}
Deal(m, c, p, dc) ==
  [Item(m, 1) EXCEPT !.CreatedDate = c, !.IsPurchased = p, !.DealerCode = dc,
                     !.LeadId = 10 + m]
Deals ==
  UNION {{Deal(m, c, p, dc) : c \in DealDates(m), p \in {True, False, None},
                              dc \in DealerCodes} : m \in MobileNos}

\* Records for the read by dealer: MobileNo m, SentToDealer s; the two
\* records differ in the dealer's name, state and town.
Sai == <<"S", "a", "i">>
Jai == <<"J", "a", "i">>
DealerLead(m, s) ==
  [Item(m, 1) EXCEPT !.SentToDealer = s,
                     !.DealerName = IF m = 1 THEN Sai ELSE Jai,
                     !.DealerState = IF m = 1 THEN "KA" ELSE "TN",
                     !.DealerTown = IF m = 1 THEN "Mysuru" ELSE "Salem"]
DealerLeads == {DealerLead(m, s) : m \in MobileNos, s \in {True, False, None}}

\* Records for the reset by dealer: MobileNo m, SentToDealer s, dealer dc.
ResetLead(m, s, dc) == [Item(m, 1) EXCEPT !.SentToDealer = s, !.DealerCode = dc]
ResetLeads ==
  {ResetLead(m, s, dc) : m \in MobileNos, s \in {True, False, None}, dc \in DealerCodes}

\* ------------------------------------------------------------ the session
\* session = Session() is created once, at import, and every handler of
\* every request thread uses that one object.
\*   state  "idle"     no transaction begun
\*          "active"   a transaction is open (autobegin on add / first SQL)
\*          "inactive" a flush or a statement failed: every further
\*                     statement and commit raises until rollback() or
\*                     close()
\*   new    objects given to session.add() and not yet flushed, with the
\*          thread that added them
\*   dirty  loaded objects whose SentToDealer was assigned and not yet
\*          flushed, by MobileNo, with the value and the thread that
\*          assigned it
\*   tx     the rows the open transaction sees: db plus its own flushed,
\*          uncommitted statements (db itself when no transaction is open)
\*   owners the threads with flushed, uncommitted statements in tx
Fresh(d) == [state |-> "idle", new |-> <<>>, dirty |-> {}, tx |-> d, owners |-> {}]

\* After a failed flush or statement the transaction is gone on the server
\* and the Session has expunged its pending objects and expired the rest.
Failed(d) == [Fresh(d) EXCEPT !.state = "inactive"]

Begin(s) == [s EXCEPT !.state = IF @ = "idle" THEN "active" ELSE @]

\* session.add(record)
SessionAdd(s, t, row) ==
  [Begin(s) EXCEPT !.new = Append(@, [owner |-> t, row |-> row])]

\* record.SentToDealer = val on a loaded object
SessionAssign(s, t, m, val) ==
  [Begin(s) EXCEPT !.dirty = {x \in @ : x.key # m}
                              \cup {[owner |-> t, key |-> m, val |-> val]}]

\* enquiry.SentToDealer = True on a loaded object
SessionAssignSent(s, t, m) == SessionAssign(s, t, m, True)

\* record.SentToDealer = False on each of the loaded objects of keys ms
RECURSIVE SessionAssignAll(_, _, _, _)
SessionAssignAll(s, t, ms, val) ==
  IF ms = {} THEN s
  ELSE LET k == CHOOSE k \in ms : TRUE IN
       SessionAssignAll(SessionAssign(s, t, k, val), t, ms \ {k}, val)

\* primary_key=True: the server takes row r into rows only with a MobileNo
\* that is not NULL and that no row has.
PrimaryKeyUnchecked(rows, r) == TRUE
PrimaryKey(rows, r) == r.MobileNo # Null /\ r.MobileNo \notin Keys(rows)

\* The INSERTs of a flush, in the order of session.add.
RECURSIVE InsertAll(_, _)
InsertAll(rows, pending) ==
  IF pending = <<>> THEN [ok |-> TRUE, rows |-> rows]
  ELSE LET r == Head(pending).row IN
       IF ~PrimaryKey(rows, r)
       THEN [ok |-> FALSE, rows |-> rows]
       ELSE InsertAll(rows \cup {r}, Tail(pending))

\* The UPDATEs of a flush: one per dirty object, by primary key.
ApplyDirty(rows, dirty) ==
  {IF r.MobileNo \in {x.key : x \in dirty}
   THEN [r EXCEPT !.SentToDealer = (CHOOSE x \in dirty : x.key = r.MobileNo).val]
   ELSE r : r \in rows}

\* An UPDATE by primary key that matches no row is a StaleDataError.
DirtyMatches(rows, dirty) == {x.key : x \in dirty} \subseteq Keys(rows)

\* Session.flush(): all pending INSERTs and UPDATEs, or none and the
\* transaction rolled back.  up is whether the server answers (the
\* handlers draw it: the connection may be down at any statement).
Flush(d, s, up) ==
  IF s.new = <<>> /\ s.dirty = {} THEN [err |-> FALSE, session |-> s]
  ELSE LET ins == InsertAll(s.tx, s.new) IN
       IF up /\ ins.ok /\ DirtyMatches(ins.rows, s.dirty)
       THEN [err |-> FALSE,
             session |-> [s EXCEPT !.new = <<>>, !.dirty = {},
                            !.tx = ApplyDirty(ins.rows, s.dirty),
                            !.owners = @ \cup {x.owner : x \in s.dirty}
                                         \cup {s.new[i].owner : i \in 1..Len(s.new)}]]
       ELSE [err |-> TRUE, session |-> Failed(d)]

\* What every query.all() / .first() / .update() / .delete() does before its
\* own statement: refuse on an inactive session, begin, autoflush.
Execute(d, s, up) ==
  IF s.state = "inactive" THEN [err |-> TRUE, session |-> s]
  ELSE LET f == Flush(d, Begin(s), up) IN
       IF f.err THEN f
       ELSE IF ~up THEN [err |-> TRUE, session |-> Failed(d)]
       ELSE f

\* session.commit(): flush, then COMMIT; the table becomes what the
\* transaction saw.
SessionCommit(d, s, up) ==
  IF s.state = "inactive" THEN [err |-> TRUE, db |-> d, session |-> s]
  ELSE IF s.state = "idle" THEN [err |-> FALSE, db |-> d, session |-> s]
  ELSE LET f == Flush(d, s, up) IN
       IF f.err \/ ~up THEN [err |-> TRUE, db |-> d, session |-> Failed(d)]
       ELSE [err |-> FALSE, db |-> f.session.tx, session |-> Fresh(f.session.tx)]

\* session.rollback(): the transaction and every pending change are dropped.
SessionRollback(d, s) == Fresh(d)

\* session.close(): rollback of anything open, every object expunged.
SessionClose(d, s) == Fresh(d)

\* The threads whose uncommitted work the session holds.
Uncommitted(s) ==
  s.owners \cup {x.owner : x \in s.dirty} \cup {s.new[i].owner : i \in 1..Len(s.new)}

\* ------------------------------------------------------------- requests
\* A query-string argument, as request.args.get() returns it.
\*   absent  the parameter is not in the URL (None)
\*   empty   the parameter is there with no text ('')
\*   int     decimal digits, of the number n
\*   ymd     'YYYY-MM-DD' of day n        dmy   'DD-MM-YYYY' of day n
\*   junk    any other text
\*   name    text used in a LIKE pattern, n its characters
\*   email   text compared for equality, n the text
\*   flag    the text of a boolean switch, n the text
Arg(k, n) == [k |-> k, n |-> n]
NoArg == Arg("absent", 0)

\* `not x` on what request.args.get() returned
Falsy(a) == a.k \in {"absent", "empty"}

\* The JSON body of PUT /update-record.
\*   shape     "object", or "array" for any other JSON value
\*   mobileno  the value under "mobileno": absent, a JSON number (int), a
\*             string of digits, any other string (junk), or a JSON array
\*   fields    the other keys, with their values
Body(shape, mobileno, fields) ==
  [shape |-> shape, mobileno |-> mobileno, fields |-> fields]
NoBody == Body("array", NoArg, <<>>)

\* `not mobileno` on request_body.get("mobileno"): None, 0 and '' are falsy.
FalsyJson(v) == v.k \in {"absent", "empty"} \/ (v.k = "int" /\ v.n = 0)

\* int(mobileno): a JSON number or a string of digits converts; any other
\* string is a ValueError; a JSON array or object is a TypeError.
PyInt(v) ==
  CASE v.k \in {"int", "digits"} -> [exc |-> "none", n |-> v.n]
    [] v.k = "array"             -> [exc |-> "TypeError", n |-> 0]
    [] OTHER                     -> [exc |-> "ValueError", n |-> 0]

\* datetime.strptime(x, '%d-%m-%Y')
Strptime(a) ==
  IF a.k = "dmy" THEN [exc |-> "none", n |-> a.n] ELSE [exc |-> "ValueError", n |-> 0]

\* The server reading a text parameter as a date, and as an integer.
PgDate(a) == IF a.k = "ymd" THEN [ok |-> TRUE, n |-> a.n] ELSE [ok |-> FALSE, n |-> 0]
PgInt(a)  == IF a.k \in {"int", "digits"} THEN [ok |-> TRUE, n |-> a.n]
             ELSE [ok |-> FALSE, n |-> 0]

\* The keys query.update() accepts: the column names of the docstring and
\* the attribute names of the mapped class, each with its attribute.
KeyAttr ==
  [briefaboutenquiry |-> "BriefAboutEnquiry", BriefAboutEnquiry |-> "BriefAboutEnquiry",
   expecteddateofpurchase |-> "ExpectedDateofPurchase",
   ExpectedDateofPurchase |-> "ExpectedDateofPurchase",
   age |-> "Age", Age |-> "Age", MobileNo |-> "MobileNo"]
DateColumns == {"ExpectedDateofPurchase", "CreatedDate"}

\* str.lower() and SQL lower() on the letters.
LowerOf ==
  [A |-> "a", B |-> "b", C |-> "c", D |-> "d", E |-> "e", F |-> "f", G |-> "g",
   H |-> "h", I |-> "i", J |-> "j", K |-> "k", L |-> "l", M |-> "m", N |-> "n",
   O |-> "o", P |-> "p", Q |-> "q", R |-> "r", S |-> "s", T |-> "t", U |-> "u",
   V |-> "v", W |-> "w", X |-> "x", Y |-> "y", Z |-> "z"]
Lower(s) == [i \in 1..Len(s) |-> IF s[i] \in DOMAIN LowerOf THEN LowerOf[s[i]] ELSE s[i]]

\* text LIKE pattern: % stands for any run of characters, _ for any one
\* character, every other character for itself.
RECURSIVE Like(_, _)
Like(s, p) ==
  IF p = <<>> THEN s = <<>>
  ELSE IF Head(p) = "%" THEN Like(s, Tail(p)) \/ (s # <<>> /\ Like(Tail(s), p))
  ELSE /\ s # <<>>
       /\ Head(p) \in {"_", Head(s)}
       /\ Like(Tail(s), Tail(p))

\* text ILIKE pattern: LIKE without regard to case.
ILike(s, p) == Like(Lower(s), Lower(p))

\* f'%{x}%'
Around(x) == <<"%">> \o x \o <<"%">>

\* date.isoformat(): the text 'YYYY-MM-DD' of a stored day.
Isoformat(n) == Arg("ymd", n)

\* record_to_dict(record): every column under its attribute name, the two
\* dates through isoformat() unless they are None.
record_to_dict(r) ==
  [c \in Columns |->
     IF c \in DateColumns /\ r[c] # Null THEN Isoformat(r[c]) ELSE r[c]]

\* item.__dict__.copy() with every date or datetime value replaced by its
\* isoformat(): what the handlers that do not use record_to_dict return.
ItemDictDmy(r) ==
  [c \in Columns |->
     IF c \in DateColumns /\ r[c] # Null THEN Arg("dmy", r[c]) ELSE r[c]]
ItemDict(r) ==
  [c \in Columns |->
     IF c \in DateColumns /\ r[c] # Null THEN Isoformat(r[c]) ELSE r[c]]

\* The bodies' "other fields".
FieldSets ==
  { <<>>,
    [briefaboutenquiry |-> "sold"],
    [briefaboutenquiry |-> "sold", expecteddateofpurchase |-> Arg("ymd", 1)],
    [expecteddateofpurchase |-> Arg("junk", 0)],
    [nosuchcolumn |-> "x"],
    [MobileNo |-> MaxMobile] }

JsonMobiles ==
  {NoArg, Arg("int", 0), Arg("junk", 0), Arg("array", 1)}
    \cup {Arg("int", m) : m \in MobileNos} \cup {Arg("digits", 1)}

\* a, b and c are the query-string arguments in the order the handler
\* reads them; c is there for the one handler that reads three.
Request(h, batch, body, a, b) ==
  [h |-> h, batch |-> batch, body |-> body, a |-> a, b |-> b, c |-> NoArg]

NoRequest == Request("none", <<>>, NoBody, NoArg, NoArg)

Batches == UNION {[1..n -> Items] : n \in 0..MaxBatch}

PostRequests == {Request("post_records", bt, NoBody, NoArg, NoArg) : bt \in Batches}

UpdateRequests ==
  {Request("update_record", <<>>, Body("object", v, f), NoArg, NoArg) :
     v \in JsonMobiles, f \in FieldSets}
  \cup {Request("update_record", <<>>, NoBody, NoArg, NoArg)}

DeleteRequests ==
  {Request("del_record", <<>>, NoBody, a, NoArg) :
     a \in {NoArg, Arg("empty", 0), Arg("junk", 0)} \cup {Arg("ymd", d) : d \in Dates}}

MarkRequests ==
  {Request("mark_sent_to_dealer", <<>>, NoBody, a, NoArg) :
     a \in {NoArg, Arg("empty", 0), Arg("junk", 0)} \cup {Arg("digits", m) : m \in MobileNos}}

HistoricArgs == {NoArg, Arg("junk", 0)} \cup {Arg("ymd", d) : d \in Dates}
HistoricRequests ==
  {Request("get_historic_leads", <<>>, NoBody, a, b) : a \in HistoricArgs, b \in HistoricArgs}

ByDateArgs == {NoArg, Arg("ymd", 1)} \cup {Arg("dmy", d) : d \in Dates}
ByDateRequests ==
  {Request("get_enquiries_by_date", <<>>, NoBody, a, b) : a \in ByDateArgs, b \in ByDateArgs}

\* GET /get-single-record?leadid=
LeadIdArgs == {NoArg, Arg("junk", 0)} \cup {Arg("digits", 10 + m) : m \in MobileNos}
SingleRequests ==
  {Request("get_single_record", <<>>, NoBody, a, NoArg) : a \in LeadIdArgs}

\* GET /search-enquiries?customername=&mobileno=&email=
SearchNames == {NoArg, Arg("name", <<"a", "s", "h">>), Arg("name", <<"_", "s", "h", "a">>)}
SearchMobiles == {NoArg, Arg("junk", 0)} \cup {Arg("digits", m) : m \in MobileNos}
SearchEmails == {NoArg, Arg("email", "asha@x.in"), Arg("email", "ravi@x.in")}
SearchRequests ==
  {[Request("search_enquiries", <<>>, NoBody, a, b) EXCEPT !.c = c] :
     a \in SearchNames, b \in SearchMobiles, c \in SearchEmails}

\* GET /get-enquiries-by-vehicle-model?vehicle_model=&case_sensitive=
VehicleArgs ==
  {NoArg, Arg("name", Thar), Arg("name", <<"t", "h", "a", "r">>),
   Arg("name", <<"t", "_", "a", "r">>)}
FlagArgs == {NoArg, Arg("flag", "true"), Arg("flag", "false")}
VehicleRequests ==
  {Request("get_enquiries_by_vehicle_model", <<>>, NoBody, a, b) :
     a \in VehicleArgs, b \in FlagArgs}

\* GET /purchased-historic-leads and /not-purchased-historic-leads
\* ?startdate= &enddate= &dealercode=
DealerCodeArgs == {NoArg, Arg("junk", 0)} \cup {Arg("digits", dc) : dc \in DealerCodes}
LeadsArgs ==
  {<<a, b, c>> : a \in {NoArg, Arg("ymd", 1)}, b \in {NoArg, Arg("ymd", MaxDate)},
                 c \in DealerCodeArgs}
PurchasedRequests ==
  {[Request(h, <<>>, NoBody, x[1], x[2]) EXCEPT !.c = x[3]] :
     h \in {"get_purchased_leads", "get_not_purchased_leads"}, x \in LeadsArgs}

\* GET /dealer-interactions?dealername= &dealerstate= &dealertown=
DealerNames == {NoArg, Arg("name", <<"s", "a">>), Arg("name", <<"_", "a", "i">>)}
DealerStates == {NoArg, Arg("text", "KA")}
DealerTowns == {NoArg, Arg("text", "Mysuru"), Arg("text", "Salem")}
DealerRequests ==
  {[Request("dealer_interactions", <<>>, NoBody, a, b) EXCEPT !.c = c] :
     a \in DealerNames, b \in DealerStates, c \in DealerTowns}

\* GET /get-limited-records-by-env-variable, a the value of LIMIT in the
\* environment of the process (absent: not set), and
\* GET /get-limited-records-by-hard-coding
LimitEnvs == {NoArg, Arg("junk", 0), Arg("digits", 0), Arg("digits", 2)}
LimitRequests ==
  {Request("get_limited_records_using_env_variable", <<>>, NoBody, a, NoArg) :
     a \in LimitEnvs}
  \cup {Request("get_limited_records_by_hard_coding", <<>>, NoBody, NoArg, NoArg)}

\* reset_sent_flag(dealercode), a call rather than a route: a the dealer
\* code, an int; no response is returned (status 0 stands).
ResetRequests ==
  {Request("reset_sent_flag", <<>>, NoBody, Arg("int", dc), NoArg) : dc \in DealerCodes}

\* GET /get-home-page1
HomeRequests == {Request("get_home_page1", <<>>, NoBody, NoArg, NoArg)}

Requests ==
  PostRequests \cup UpdateRequests \cup DeleteRequests \cup MarkRequests
    \cup HistoricRequests \cup ByDateRequests

\* ---------------------------------------------------------------- state
VARIABLES
  db,       \* the committed rows of product_enquiry
  session,  \* the module-level Session
  pc,       \* per thread: where its handler stands ("idle": no request)
  req,      \* per thread: the request being served
  loc,      \* per thread: the handler's local variables
  resp,     \* per thread: the response returned
  obs       \* per thread: what the request did, for the properties
            \* (pre: the table when it arrived; down: the server refused
            \* one of its statements; prev: the request the client made
            \* before this one and the answer it got, where the client
            \* keeps it)

vars == <<db, session, pc, req, loc, resp, obs>>

NoLoc  == [i |-> 1, m |-> 0, rows |-> {}, count |-> 0, exc |-> "none"]
NoResp == [status |-> 0, body |-> "none", count |-> 0, rows |-> {}]
NoPrev == [req |-> NoRequest, status |-> 0, rows |-> {}, clean |-> FALSE]
NoObs(d) == [pre |-> d, closed |-> FALSE, rolled |-> FALSE, mails |-> <<>>,
             stmts |-> {}, intended |-> 0, down |-> FALSE, prev |-> NoPrev]

Init ==
  /\ db = {}
  /\ session = Fresh({})
  /\ pc = [t \in Threads |-> "idle"]
  /\ req = [t \in Threads |-> NoRequest]
  /\ loc = [t \in Threads |-> NoLoc]
  /\ resp = [t \in Threads |-> NoResp]
  /\ obs = [t \in Threads |-> NoObs({})]

\* ------------------------------------------------- what each handler has
\* The handlers whose except clauses call session.rollback().
RollsBack ==
  {"post_records", "update_record", "del_record", "get_historic_leads",
   "get_single_record", "get_home_page1", "get_purchased_leads",
   "get_not_purchased_leads", "get_limited_records_using_env_variable",
   "get_limited_records_by_hard_coding", "reset_sent_flag"}

\* The handlers whose finally clause calls session.close().
Closes ==
  {"post_records", "update_record", "del_record", "get_historic_leads",
   "get_single_record", "get_home_page1", "get_purchased_leads",
   "get_not_purchased_leads", "get_limited_records_using_env_variable",
   "get_limited_records_by_hard_coding", "reset_sent_flag"}

\* The status of the return that follows notify_success.
SuccessStatus(h) == IF h = "post_records" THEN 201 ELSE 200

\* The except clause that catches exc in handler h: whether it rolls back
\* and the status it returns.  Only the three historic-leads handlers have
\* an `except ValueError` clause.
CatchesValueError ==
  {"get_historic_leads", "get_purchased_leads", "get_not_purchased_leads"}
ExceptClause(h, exc) ==
  IF exc = "ValueError" /\ h \in CatchesValueError
  THEN [rollback |-> FALSE, status |-> 400]
  ELSE [rollback |-> h \in RollsBack, status |-> 500]

\* First label of each handler.
Entry(r) ==
  CASE r.h = "post_records" -> IF Len(r.batch) = 0 THEN "post_commit" ELSE "post_add"
    [] r.h = "update_record" -> "upd_validate"
    [] r.h = "del_record" -> "del_select"
    [] r.h = "mark_sent_to_dealer" -> "mark_query"
    [] r.h = "get_historic_leads" -> "hist_query"
    [] r.h = "get_enquiries_by_date" -> "bydate_query"
    [] r.h = "get_single_record" -> "single_query"
    [] r.h = "search_enquiries" -> "search_query"
    [] r.h = "get_home_page1" -> "home_query"
    [] r.h = "reset_sent_flag" -> "reset_query"
    [] r.h = "get_limited_records_using_env_variable" -> "limit_env_query"
    [] r.h = "get_limited_records_by_hard_coding" -> "limit_hard_query"
    [] r.h = "dealer_interactions" -> "dealer_query"
    [] r.h = "get_purchased_leads" -> "purchased_query"
    [] r.h = "get_not_purchased_leads" -> "not_purchased_query"
    [] r.h = "get_enquiries_by_vehicle_model" -> "vehicle_query"

\* ------------------------------------------------------------- dispatch
\* The framework hands request r to thread t.
Receive(t, r) ==
  /\ pc[t] = "idle"
  /\ pc' = [pc EXCEPT ![t] = Entry(r)]
  /\ req' = [req EXCEPT ![t] = r]
  /\ loc' = [loc EXCEPT ![t] = NoLoc]
  /\ resp' = [resp EXCEPT ![t] = NoResp]
  /\ obs' = [obs EXCEPT ![t] = [NoObs(db) EXCEPT !.prev = obs[t].prev]]
  /\ UNCHANGED <<db, session>>

\* raise: control goes to the except clauses.
Raise(t, exc) ==
  /\ pc' = [pc EXCEPT ![t] = "except"]
  /\ loc' = [loc EXCEPT ![t].exc = exc]

\* return jsonify(...), status from inside the try block: the finally
\* clause is next.
ReturnEarly(t, status, body) ==
  /\ pc' = [pc EXCEPT ![t] = "finally"]
  /\ resp' = [resp EXCEPT ![t] = [NoResp EXCEPT !.status = status, !.body = body]]

\* ---------------------------------------------------- POST /post-records
\* Where the loop goes after adding item i of n: round the loop, and to
\* session.commit() only after the last item.
AfterAddCommitsEach(i, n) == "post_commit"
AfterAdd(i, n) == IF i = n THEN "post_commit" ELSE "post_add"

\* One turn of the loop: build the record (KeyError on a missing key),
\* session.add it.
PostAdd(t) ==
  /\ pc[t] = "post_add"
  /\ LET item == req[t].batch[loc[t].i] IN
     IF HasAllKeys(item)
     THEN /\ session' = SessionAdd(session, t, ProductEnquiryForms(item))
          /\ loc' = [loc EXCEPT ![t].i = @ + 1]
          /\ pc' = [pc EXCEPT ![t] = AfterAdd(loc[t].i, Len(req[t].batch))]
     ELSE /\ Raise(t, "Exception")
          /\ UNCHANGED session
  /\ UNCHANGED <<db, req, resp, obs>>

\* session.commit() of a handler.
Commit(t, label, next) ==
  /\ pc[t] = label
  /\ \E down \in BOOLEAN :
       LET c == SessionCommit(db, session, ~down) IN
       /\ db' = c.db
       /\ session' = c.session
       /\ IF c.err THEN Raise(t, "SQLAlchemyError")
          ELSE /\ pc' = [pc EXCEPT ![t] = next]
               /\ UNCHANGED loc
       /\ obs' = [obs EXCEPT ![t].stmts = @ \cup {"commit"},
                             ![t].down = @ \/ (down /\ c.err)]
  /\ UNCHANGED <<req, resp>>

PostCommit(t) == Commit(t, "post_commit", "notify_success")

\* ---------------------------------------------------- PUT /update-record
\* The checks before the store is touched (a `return ..., 400` each), and
\* int(mobileno), whose TypeError no clause of the inner try catches.
UpdValidate(t) ==
  /\ pc[t] = "upd_validate"
  /\ LET b == req[t].body
         n == PyInt(b.mobileno) IN
     IF b.shape # "object" \/ (b.mobileno.k = "absent" /\ DOMAIN b.fields = {})
     THEN ReturnEarly(t, 400, "invalid_body") /\ UNCHANGED loc
     ELSE IF FalsyJson(b.mobileno)
     THEN ReturnEarly(t, 400, "missing") /\ UNCHANGED loc
     ELSE IF n.exc = "ValueError"
     THEN ReturnEarly(t, 400, "invalid") /\ UNCHANGED loc
     ELSE IF n.exc = "TypeError"
     THEN Raise(t, "Exception") /\ UNCHANGED resp
     ELSE IF DOMAIN b.fields = {}
     THEN ReturnEarly(t, 400, "no_fields") /\ UNCHANGED loc
     ELSE /\ pc' = [pc EXCEPT ![t] = "upd_exec"]
          /\ loc' = [loc EXCEPT ![t].m = n.n]
          /\ UNCHANGED resp
  /\ UNCHANGED <<db, session, req, obs>>

\* The row after UPDATE ... SET of the fields f.
Updated(r, f) ==
  [c \in Columns |->
     IF \E k \in DOMAIN f : KeyAttr[k] = c
     THEN LET k == CHOOSE k \in DOMAIN f : KeyAttr[k] = c IN
          IF c \in DateColumns THEN PgDate(f[k]).n ELSE f[k]
     ELSE r[c]]

\* filter(ProductEnquiryForms.MobileNo == mobileno)
MatchesAnyRow(r, m) == TRUE
Matches(r, m) == r.MobileNo = m

\* The keys name columns.
KnownKeys(f) == \A k \in DOMAIN f : k \in DOMAIN KeyAttr

\* The values are of their columns' types.
WellTyped(f) ==
  \A k \in DOMAIN f : (k \in DOMAIN KeyAttr /\ KeyAttr[k] \in DateColumns) => PgDate(f[k]).ok

\* query.filter(MobileNo == mobileno).update(update_fields, 'fetch') and
\* the `result == 0` return.
UpdExec(t) ==
  /\ pc[t] = "upd_exec"
  /\ \E down \in BOOLEAN :
     LET e    == Execute(db, session, ~down)
         f    == req[t].body.fields
         hit  == {r \in e.session.tx : Matches(r, loc[t].m)}
         rest == e.session.tx \ hit
         new  == {Updated(r, f) : r \in hit}
     IN
     IF e.err
     THEN /\ session' = e.session
          /\ Raise(t, "SQLAlchemyError")
          /\ obs' = [obs EXCEPT ![t].down = @ \/ down]
          /\ UNCHANGED resp
     ELSE IF ~KnownKeys(f)
     THEN /\ session' = e.session
          /\ Raise(t, "SQLAlchemyError")
          /\ UNCHANGED <<resp, obs>>
     ELSE IF ~WellTyped(f) \/ Keys(new) \cap Keys(rest) # {}
     THEN /\ session' = Failed(db)
          /\ Raise(t, "SQLAlchemyError")
          /\ obs' = [obs EXCEPT ![t].stmts = @ \cup {"update"}]
          /\ UNCHANGED resp
     ELSE /\ session' = [e.session EXCEPT !.tx = rest \cup new,
                           !.owners = IF hit = {} THEN @ ELSE @ \cup {t}]
          /\ obs' = [obs EXCEPT ![t].stmts = @ \cup {"update"}]
          /\ IF hit = {}
             THEN ReturnEarly(t, 404, "not_found") /\ UNCHANGED loc
             ELSE /\ pc' = [pc EXCEPT ![t] = "upd_commit"]
                  /\ loc' = [loc EXCEPT ![t].count = Cardinality(hit)]
                  /\ UNCHANGED resp
  /\ UNCHANGED <<db, req>>

UpdCommit(t) == Commit(t, "upd_commit", "notify_success")

\* ------------------------------------------------ DELETE /del-single-record
\* ExpectedDateofPurchase < cutoff, as the server decides it (NULL is not
\* less than anything).
BeforeOrOn(r, cutoff) ==
  r.ExpectedDateofPurchase # Null /\ r.ExpectedDateofPurchase <= cutoff
Before(r, cutoff) ==
  r.ExpectedDateofPurchase # Null /\ r.ExpectedDateofPurchase < cutoff

\* `if not date:` tests the class datetime.date, which is never falsy: the
\* 400 return under it is never taken.
DelParamMissing(a) == FALSE

\* The check, then records_to_delete = query.filter(... < expected_date).all().
\* Comparing a column with None by `<` is an ArgumentError, raised while the
\* filter is built; text that is no date is refused by the server.
DelSelect(t) ==
  /\ pc[t] = "del_select"
  /\ \E down \in BOOLEAN :
     LET a == req[t].a
         e == Execute(db, session, ~down)
     IN
     IF DelParamMissing(a)
     THEN /\ ReturnEarly(t, 400, "missing")
          /\ UNCHANGED <<session, loc, obs>>
     ELSE IF a.k = "absent"
     THEN /\ Raise(t, "SQLAlchemyError")
          /\ UNCHANGED <<session, resp, obs>>
     ELSE IF e.err
     THEN /\ session' = e.session
          /\ Raise(t, "SQLAlchemyError")
          /\ obs' = [obs EXCEPT ![t].down = @ \/ down]
          /\ UNCHANGED resp
     ELSE IF ~PgDate(a).ok
     THEN /\ session' = Failed(db)
          /\ Raise(t, "SQLAlchemyError")
          /\ obs' = [obs EXCEPT ![t].stmts = @ \cup {"select"}]
          /\ UNCHANGED resp
     ELSE /\ session' = e.session
          /\ loc' = [loc EXCEPT ![t].rows = {r \in e.session.tx : Before(r, PgDate(a).n)}]
          /\ pc' = [pc EXCEPT ![t] = "del_delete"]
          /\ obs' = [obs EXCEPT ![t].stmts = @ \cup {"select"}]
          /\ UNCHANGED resp
  /\ UNCHANGED <<db, req>>

\* result = query.filter(... < expected_date).delete()
DelDelete(t) ==
  /\ pc[t] = "del_delete"
  /\ \E down \in BOOLEAN :
     LET e   == Execute(db, session, ~down)
         hit == {r \in e.session.tx : Before(r, PgDate(req[t].a).n)}
     IN
     IF e.err
     THEN /\ session' = e.session
          /\ Raise(t, "SQLAlchemyError")
          /\ obs' = [obs EXCEPT ![t].down = @ \/ down]
     ELSE /\ session' = [e.session EXCEPT !.tx = @ \ hit,
                           !.owners = IF hit = {} THEN @ ELSE @ \cup {t}]
          /\ loc' = [loc EXCEPT ![t].count = Cardinality(hit)]
          /\ pc' = [pc EXCEPT ![t] = "del_commit"]
          /\ obs' = [obs EXCEPT ![t].stmts = @ \cup {"delete"}]
  /\ UNCHANGED <<db, req, resp>>

DelCommit(t) == Commit(t, "del_commit", "notify_success")

\* ------------------------------------------------- PUT /mark-sent-to-dealer
\* The check of mobileno, then query.filter_by(MobileNo=mobile_no).first()
\* and the `not enquiry` return.
MarkQuery(t) ==
  /\ pc[t] = "mark_query"
  /\ \E down \in BOOLEAN :
     LET a == req[t].a
         e == Execute(db, session, ~down)
         hit == {r \in e.session.tx : r.MobileNo = PgInt(a).n}
     IN
     IF Falsy(a)
     THEN /\ ReturnEarly(t, 400, "missing")
          /\ UNCHANGED <<session, loc, obs>>
     ELSE IF e.err
     THEN /\ session' = e.session
          /\ Raise(t, "SQLAlchemyError")
          /\ obs' = [obs EXCEPT ![t].down = @ \/ down]
          /\ UNCHANGED resp
     ELSE IF ~PgInt(a).ok
     THEN /\ session' = Failed(db)
          /\ Raise(t, "SQLAlchemyError")
          /\ obs' = [obs EXCEPT ![t].stmts = @ \cup {"select"}]
          /\ UNCHANGED resp
     ELSE /\ session' = e.session
          /\ obs' = [obs EXCEPT ![t].stmts = @ \cup {"select"}]
          /\ IF hit = {}
             THEN ReturnEarly(t, 404, "not_found") /\ UNCHANGED loc
             ELSE /\ pc' = [pc EXCEPT ![t] = "mark_set"]
                  /\ loc' = [loc EXCEPT ![t].m = PgInt(a).n]
                  /\ UNCHANGED resp
  /\ UNCHANGED <<db, req>>

\* enquiry.SentToDealer = True
MarkSet(t) ==
  /\ pc[t] = "mark_set"
  /\ session' = SessionAssignSent(session, t, loc[t].m)
  /\ pc' = [pc EXCEPT ![t] = "mark_commit"]
  /\ UNCHANGED <<db, req, loc, resp, obs>>

MarkCommit(t) == Commit(t, "mark_commit", "mark_refresh")

\* record_to_dict(enquiry): the commit expired the object, so reading its
\* attributes loads the row again, in a new transaction.
MarkRefresh(t) ==
  /\ pc[t] = "mark_refresh"
  /\ \E down \in BOOLEAN :
     LET e == Execute(db, session, ~down)
         hit == {r \in e.session.tx : r.MobileNo = loc[t].m}
     IN
     /\ session' = e.session
     /\ IF e.err \/ hit = {}
        THEN /\ Raise(t, "SQLAlchemyError")
             /\ obs' = [obs EXCEPT ![t].down = @ \/ down]
        ELSE /\ loc' = [loc EXCEPT ![t].rows = hit, ![t].count = 1]
             /\ pc' = [pc EXCEPT ![t] = "notify_success"]
             /\ obs' = [obs EXCEPT ![t].stmts = @ \cup {"select"}]
  /\ UNCHANGED <<db, req, resp>>

\* ------------------------------------------------------ GET /historic-leads
\* CreatedDate >= lo AND CreatedDate <= hi
InRangeOpen(r, lo, hi) == r.CreatedDate # Null /\ lo < r.CreatedDate /\ r.CreatedDate < hi
InRange(r, lo, hi) == r.CreatedDate # Null /\ lo <= r.CreatedDate /\ r.CreatedDate <= hi

\* The check of startdate and enddate, then the query: the texts go to the
\* server as they came and the server reads them as dates.
HistQuery(t) ==
  /\ pc[t] = "hist_query"
  /\ \E down \in BOOLEAN :
     LET a == req[t].a
         b == req[t].b
         e == Execute(db, session, ~down)
     IN
     IF Falsy(a) \/ Falsy(b)
     THEN /\ ReturnEarly(t, 400, "missing")
          /\ UNCHANGED <<session, loc, obs>>
     ELSE IF e.err
     THEN /\ session' = e.session
          /\ Raise(t, "SQLAlchemyError")
          /\ obs' = [obs EXCEPT ![t].down = @ \/ down]
          /\ UNCHANGED resp
     ELSE IF ~PgDate(a).ok \/ ~PgDate(b).ok
     THEN /\ session' = Failed(db)
          /\ Raise(t, "SQLAlchemyError")
          /\ obs' = [obs EXCEPT ![t].stmts = @ \cup {"select"}]
          /\ UNCHANGED resp
     ELSE LET got == {r \in e.session.tx : InRange(r, PgDate(a).n, PgDate(b).n)} IN
          /\ session' = e.session
          /\ loc' = [loc EXCEPT ![t].rows = got, ![t].count = Cardinality(got)]
          /\ pc' = [pc EXCEPT ![t] = "notify_success"]
          /\ obs' = [obs EXCEPT ![t].stmts = @ \cup {"select"}]
          /\ UNCHANGED resp
  /\ UNCHANGED <<db, req>>

\* ---------------- GET /purchased-historic-leads, /not-purchased-historic-leads
\* and_(CreatedDate >= lo, CreatedDate <= hi, IsPurchased == flag,
\*      DealerCode == dc): a comparison with NULL is not true.
LeadMatchesAnyFlag(r, lo, hi, flag, dc) == InRange(r, lo, hi) /\ r.DealerCode = dc
LeadMatches(r, lo, hi, flag, dc) ==
  InRange(r, lo, hi) /\ r.IsPurchased = flag /\ r.DealerCode = dc

\* The check of the three parameters, then the query; the texts go to the
\* server as they came.
LeadsQuery(t, flag) ==
  \E down \in BOOLEAN :
     LET a == req[t].a
         b == req[t].b
         c == req[t].c
         e == Execute(db, session, ~down)
     IN
     IF Falsy(a) \/ Falsy(b) \/ Falsy(c)
     THEN /\ ReturnEarly(t, 400, "missing")
          /\ UNCHANGED <<session, loc, obs>>
     ELSE IF e.err
     THEN /\ session' = e.session
          /\ Raise(t, "SQLAlchemyError")
          /\ obs' = [obs EXCEPT ![t].down = @ \/ down]
          /\ UNCHANGED resp
     ELSE IF ~PgDate(a).ok \/ ~PgDate(b).ok \/ ~PgInt(c).ok
     THEN /\ session' = Failed(db)
          /\ Raise(t, "SQLAlchemyError")
          /\ obs' = [obs EXCEPT ![t].stmts = @ \cup {"select"}]
          /\ UNCHANGED resp
     ELSE LET got == {r \in e.session.tx :
                        LeadMatches(r, PgDate(a).n, PgDate(b).n, flag, PgInt(c).n)} IN
          /\ session' = e.session
          /\ loc' = [loc EXCEPT ![t].rows = got, ![t].count = Cardinality(got)]
          /\ pc' = [pc EXCEPT ![t] = "notify_success"]
          /\ obs' = [obs EXCEPT ![t].stmts = @ \cup {"select"}]
          /\ UNCHANGED resp

PurchasedQueryOfFalse(t) ==
  /\ pc[t] = "purchased_query"
  /\ LeadsQuery(t, False)
  /\ UNCHANGED <<db, req>>
PurchasedQuery(t) ==
  /\ pc[t] = "purchased_query"
  /\ LeadsQuery(t, True)
  /\ UNCHANGED <<db, req>>

NotPurchasedQuery(t) ==
  /\ pc[t] = "not_purchased_query"
  /\ LeadsQuery(t, False)
  /\ UNCHANGED <<db, req>>

\* ---------------------------------------------- GET /dealer-interactions
\* filter_by(SentToDealer=True), then the filters of the arguments that
\* are truthy: DealerName ILIKE '%dealername%', DealerState = dealerstate,
\* DealerTown = dealertown.
DealerMatches(r, q) ==
  /\ r.SentToDealer = True
  /\ Falsy(q.a) \/ ILike(r.DealerName, Around(q.a.n))
  /\ Falsy(q.b) \/ r.DealerState = q.b.n
  /\ Falsy(q.c) \/ r.DealerTown = q.c.n

\* enquiries = query.all() and the `not enquiries` return.
DealerQuery(t) ==
  /\ pc[t] = "dealer_query"
  /\ \E down \in BOOLEAN :
     LET e == Execute(db, session, ~down) IN
     IF e.err
     THEN /\ session' = e.session
          /\ Raise(t, "SQLAlchemyError")
          /\ obs' = [obs EXCEPT ![t].down = @ \/ down]
          /\ UNCHANGED resp
     ELSE LET got == {r \in e.session.tx : DealerMatches(r, req[t])} IN
          /\ session' = e.session
          /\ obs' = [obs EXCEPT ![t].stmts = @ \cup {"select"}]
          /\ IF got = {}
             THEN ReturnEarly(t, 404, "not_found") /\ UNCHANGED loc
             ELSE /\ loc' = [loc EXCEPT ![t].rows = got, ![t].count = Cardinality(got)]
                  /\ pc' = [pc EXCEPT ![t] = "notify_success"]
                  /\ UNCHANGED resp
  /\ UNCHANGED <<db, req>>

\* -------- GET /get-limited-records-by-env-variable, -by-hard-coding
DefaultLimit == 10
HardLimit    == 3
HardOffset   == 2

\* os.getenv("LIMIT", 10)
Getenv(a) == IF a.k = "absent" THEN Arg("int", DefaultLimit) ELSE a

\* What query.limit(limit).offset(offset).all() can return: the query has
\* no ORDER BY, so the server skips any offset rows and returns any limit
\* of the rest.
SliceSize(n, limit, offset) ==
  IF n <= offset THEN 0 ELSE IF n - offset <= limit THEN n - offset ELSE limit
SliceFromStart(rows, limit, offset) ==
  {S \in SUBSET rows : Cardinality(S) = SliceSize(Cardinality(rows), limit, 0)}
Slice(rows, limit, offset) ==
  {S \in SUBSET rows : Cardinality(S) = SliceSize(Cardinality(rows), limit, offset)}

\* The query of both handlers.
LimitQuery(t, limit, offset) ==
  \E down \in BOOLEAN :
     LET e == Execute(db, session, ~down) IN
     /\ session' = e.session
     /\ IF e.err
        THEN /\ Raise(t, "SQLAlchemyError")
             /\ obs' = [obs EXCEPT ![t].down = @ \/ down]
        ELSE \E got \in Slice(e.session.tx, limit, offset) :
             /\ loc' = [loc EXCEPT ![t].rows = got, ![t].count = Cardinality(got)]
             /\ pc' = [pc EXCEPT ![t] = "notify_success"]
             /\ obs' = [obs EXCEPT ![t].stmts = @ \cup {"select"}]

\* limit = int(os.getenv("LIMIT", 10)), then limit(limit).offset(0)
LimitEnvQuery(t) ==
  /\ pc[t] = "limit_env_query"
  /\ LET limit == PyInt(Getenv(req[t].a)) IN
     IF limit.exc # "none"
     THEN Raise(t, "Exception") /\ UNCHANGED <<session, obs>>
     ELSE LimitQuery(t, limit.n, 0)
  /\ UNCHANGED <<db, req, resp>>

\* limit = 3, offset = 2
LimitHardQuery(t) ==
  /\ pc[t] = "limit_hard_query"
  /\ LimitQuery(t, HardLimit, HardOffset)
  /\ UNCHANGED <<db, req, resp>>

\* -------------------------------------------- reset_sent_flag(dealercode)
\* filter(ProductEnquiryForms.DealerCode == dealercode)
ResetMatchesAny(r, dc) == TRUE
ResetMatches(r, dc) == r.DealerCode = dc

\* records = query.all(), then record.SentToDealer = False and
\* session.add(record) for each.
ResetQuery(t) ==
  /\ pc[t] = "reset_query"
  /\ \E down \in BOOLEAN :
     LET e == Execute(db, session, ~down)
         hit == {r \in e.session.tx : ResetMatches(r, req[t].a.n)}
     IN
     IF e.err
     THEN /\ session' = e.session
          /\ Raise(t, "SQLAlchemyError")
          /\ obs' = [obs EXCEPT ![t].down = @ \/ down]
     ELSE /\ session' = SessionAssignAll(e.session, t, Keys(hit), False)
          /\ pc' = [pc EXCEPT ![t] = "reset_commit"]
          /\ loc' = [loc EXCEPT ![t].count = Cardinality(hit)]
          /\ obs' = [obs EXCEPT ![t].stmts = @ \cup {"select"}]
  /\ UNCHANGED <<db, req, resp>>

\* session.commit(); the function has no notification and returns nothing.
ResetCommit(t) == Commit(t, "reset_commit", "finally")

\* ------------------------------------------------ GET /get-enquiries-by-date
\* The check of start_date and end_date, the two strptime calls, the query.
ByDateQuery(t) ==
  /\ pc[t] = "bydate_query"
  /\ \E down \in BOOLEAN :
     LET lo == Strptime(req[t].a)
         hi == Strptime(req[t].b)
         e == Execute(db, session, ~down)
     IN
     IF Falsy(req[t].a) \/ Falsy(req[t].b)
     THEN /\ ReturnEarly(t, 400, "missing")
          /\ UNCHANGED <<session, loc, obs>>
     ELSE IF lo.exc # "none" \/ hi.exc # "none"
     THEN /\ Raise(t, "ValueError")
          /\ UNCHANGED <<session, resp, obs>>
     ELSE IF e.err
     THEN /\ session' = e.session
          /\ Raise(t, "SQLAlchemyError")
          /\ obs' = [obs EXCEPT ![t].down = @ \/ down]
          /\ UNCHANGED resp
     ELSE LET got == {r \in e.session.tx : InRange(r, lo.n, hi.n)} IN
          /\ session' = e.session
          /\ loc' = [loc EXCEPT ![t].rows = got, ![t].count = Cardinality(got)]
          /\ pc' = [pc EXCEPT ![t] = "notify_success"]
          /\ obs' = [obs EXCEPT ![t].stmts = @ \cup {"select"}]
          /\ UNCHANGED resp
  /\ UNCHANGED <<db, req>>

\* ------------------------------------------------------- GET /get-home-page1
\* results = session.query(ProductEnquiryForms).all()
HomeQuery(t) ==
  /\ pc[t] = "home_query"
  /\ \E down \in BOOLEAN :
     LET e == Execute(db, session, ~down) IN
     /\ session' = e.session
     /\ IF e.err
        THEN /\ Raise(t, "SQLAlchemyError")
             /\ obs' = [obs EXCEPT ![t].down = @ \/ down]
        ELSE /\ loc' = [loc EXCEPT ![t].rows = e.session.tx,
                                   ![t].count = Cardinality(e.session.tx)]
             /\ pc' = [pc EXCEPT ![t] = "notify_success"]
             /\ obs' = [obs EXCEPT ![t].stmts = @ \cup {"select"}]
  /\ UNCHANGED <<db, req, resp>>

\* ---------------------------------------------------- GET /get-single-record
\* filter(LeadId == leadid): with no leadid the comparison is with None,
\* that is LeadId IS NULL; text that is no integer is refused by the server.
HasLeadId(r, a) ==
  IF a.k = "absent" THEN r.LeadId = Null ELSE r.LeadId = PgInt(a).n

\* results = query.filter(LeadId == leadid).all() and record_count
SingleQuery(t) ==
  /\ pc[t] = "single_query"
  /\ \E down \in BOOLEAN :
     LET a == req[t].a
         e == Execute(db, session, ~down)
     IN
     IF e.err
     THEN /\ session' = e.session
          /\ Raise(t, "SQLAlchemyError")
          /\ obs' = [obs EXCEPT ![t].down = @ \/ down]
     ELSE IF a.k # "absent" /\ ~PgInt(a).ok
     THEN /\ session' = Failed(db)
          /\ Raise(t, "SQLAlchemyError")
          /\ obs' = [obs EXCEPT ![t].stmts = @ \cup {"select"}]
     ELSE LET got == {r \in e.session.tx : HasLeadId(r, a)} IN
          /\ session' = e.session
          /\ loc' = [loc EXCEPT ![t].rows = got, ![t].count = Cardinality(got)]
          /\ pc' = [pc EXCEPT ![t] = IF got = {} THEN "single_notfound"
                                     ELSE "notify_success"]
          /\ obs' = [obs EXCEPT ![t].stmts = @ \cup {"select"}]
  /\ UNCHANGED <<db, req, resp>>

\* `if record_count == 0`: notify_failure(...), called inside the try
\* block, then the 404 return.
SingleNotFound(t) ==
  /\ pc[t] = "single_notfound"
  /\ \E refused \in BOOLEAN :
       /\ obs' = [obs EXCEPT ![t].mails = Append(@, [kind |-> "failure", sent |-> ~refused]),
                             ![t].intended = 404]
       /\ IF refused
          THEN Raise(t, "Exception") /\ UNCHANGED resp
          ELSE ReturnEarly(t, 404, "not_found") /\ UNCHANGED loc
  /\ UNCHANGED <<db, session, req>>

\* ----------------------------------------------------- GET /search-enquiries
\* The filters of the arguments that are truthy: CustomerName ILIKE
\* '%customername%', MobileNo = mobileno, Email = email.
SearchMatches(r, q) ==
  /\ Falsy(q.a) \/ ILike(r.CustomerName, Around(q.a.n))
  /\ Falsy(q.b) \/ r.MobileNo = PgInt(q.b).n
  /\ Falsy(q.c) \/ r.Email = q.c.n

\* enquiries = query.all() and the `not enquiries` return.
SearchQuery(t) ==
  /\ pc[t] = "search_query"
  /\ \E down \in BOOLEAN :
     LET q == req[t]
         e == Execute(db, session, ~down)
     IN
     IF e.err
     THEN /\ session' = e.session
          /\ Raise(t, "SQLAlchemyError")
          /\ obs' = [obs EXCEPT ![t].down = @ \/ down]
          /\ UNCHANGED resp
     ELSE IF ~Falsy(q.b) /\ ~PgInt(q.b).ok
     THEN /\ session' = Failed(db)
          /\ Raise(t, "SQLAlchemyError")
          /\ obs' = [obs EXCEPT ![t].stmts = @ \cup {"select"}]
          /\ UNCHANGED resp
     ELSE LET got == {r \in e.session.tx : SearchMatches(r, q)} IN
          /\ session' = e.session
          /\ obs' = [obs EXCEPT ![t].stmts = @ \cup {"select"}]
          /\ IF got = {}
             THEN ReturnEarly(t, 404, "not_found") /\ UNCHANGED loc
             ELSE /\ loc' = [loc EXCEPT ![t].rows = got, ![t].count = Cardinality(got)]
                  /\ pc' = [pc EXCEPT ![t] = "notify_success"]
                  /\ UNCHANGED resp
  /\ UNCHANGED <<db, req>>

\* ------------------------------------- GET /get-enquiries-by-vehicle-model
\* request.args.get('case_sensitive', 'false').lower() == 'true'
CaseSensitive(b) == b.k = "flag" /\ b.n = "true"

\* VehicleModel LIKE '%x%', or lower(VehicleModel) LIKE '%lower(x)%'.
VehicleMatches(r, a, b) ==
  IF CaseSensitive(b) THEN Like(r.VehicleModel, Around(a.n))
  ELSE Like(Lower(r.VehicleModel), Around(Lower(a.n)))

\* The check of vehicle_model, the query and the `not enquiries` return.
VehicleQuery(t) ==
  /\ pc[t] = "vehicle_query"
  /\ \E down \in BOOLEAN :
     LET a == req[t].a
         e == Execute(db, session, ~down)
     IN
     IF Falsy(a)
     THEN /\ ReturnEarly(t, 400, "missing")
          /\ UNCHANGED <<session, loc, obs>>
     ELSE IF e.err
     THEN /\ session' = e.session
          /\ Raise(t, "SQLAlchemyError")
          /\ obs' = [obs EXCEPT ![t].down = @ \/ down]
          /\ UNCHANGED resp
     ELSE LET got == {r \in e.session.tx : VehicleMatches(r, a, req[t].b)} IN
          /\ session' = e.session
          /\ obs' = [obs EXCEPT ![t].stmts = @ \cup {"select"}]
          /\ IF got = {}
             THEN ReturnEarly(t, 404, "not_found") /\ UNCHANGED loc
             ELSE /\ loc' = [loc EXCEPT ![t].rows = got, ![t].count = Cardinality(got)]
                  /\ pc' = [pc EXCEPT ![t] = "notify_success"]
                  /\ UNCHANGED resp
  /\ UNCHANGED <<db, req>>

\* ------------------------------------------------------- the common tail
\* The handlers that answer with record_to_dict of what they read, and
\* those that answer with the copied __dict__.
UsesRecordToDict ==
  {"dealer_interactions"} \cup
  {"mark_sent_to_dealer", "get_enquiries_by_date", "search_enquiries",
   "get_enquiries_by_vehicle_model"}
UsesItemDict ==
  {"get_historic_leads", "get_single_record", "get_home_page1",
   "get_purchased_leads", "get_not_purchased_leads",
   "get_limited_records_using_env_variable", "get_limited_records_by_hard_coding"}

\* The body of the success response of handler h.
SuccessResponse(t) ==
  LET h == req[t].h IN
  [status |-> SuccessStatus(h), body |-> "ok",
   count |-> IF h = "post_records" THEN loc[t].i - 1 ELSE loc[t].count,
   rows |-> IF h \in UsesRecordToDict THEN {record_to_dict(r) : r \in loc[t].rows}
            ELSE IF h \in UsesItemDict THEN {ItemDict(r) : r \in loc[t].rows}
            ELSE loc[t].rows]

\* notify_success(subject, body) and the return after it.  send_email has
\* no try: what smtplib raises goes up into the handler's try block.
NotifySuccess(t) ==
  /\ pc[t] = "notify_success"
  /\ \E refused \in BOOLEAN :
       LET sent == ~refused IN
       /\ obs' = [obs EXCEPT ![t].mails = Append(@, [kind |-> "success", sent |-> sent]),
                             ![t].intended = SuccessStatus(req[t].h)]
       /\ IF sent
          THEN /\ pc' = [pc EXCEPT ![t] = "finally"]
               /\ resp' = [resp EXCEPT ![t] = SuccessResponse(t)]
               /\ UNCHANGED loc
          ELSE /\ Raise(t, "Exception")
               /\ UNCHANGED resp
  /\ UNCHANGED <<db, session, req>>

\* The matching except clause, up to its notify_failure call.
Except(t) ==
  /\ pc[t] = "except"
  /\ LET c == ExceptClause(req[t].h, loc[t].exc) IN
       /\ session' = IF c.rollback THEN SessionRollback(db, session) ELSE session
       /\ obs' = [obs EXCEPT ![t].rolled = @ \/ c.rollback]
  /\ pc' = [pc EXCEPT ![t] = IF req[t].h = "reset_sent_flag" THEN "finally"
                             ELSE "notify_failure"]
  /\ UNCHANGED <<db, req, loc, resp>>

\* notify_failure(subject, body) and the return after it.  When the mail
\* server raises here the exception leaves the handler and the framework
\* answers 500 with its own page.
NotifyFailure(t) ==
  /\ pc[t] = "notify_failure"
  /\ LET c == ExceptClause(req[t].h, loc[t].exc) IN
     \E refused \in BOOLEAN :
       LET sent == ~refused IN
       /\ obs' = [obs EXCEPT ![t].mails = Append(@, [kind |-> "failure", sent |-> sent]),
                             ![t].intended = IF @ = 0 THEN c.status ELSE @]
       /\ resp' = [resp EXCEPT ![t] =
                     IF sent THEN [NoResp EXCEPT !.status = c.status, !.body = "error"]
                     ELSE [NoResp EXCEPT !.status = 500, !.body = "framework"]]
  /\ pc' = [pc EXCEPT ![t] = "finally"]
  /\ UNCHANGED <<db, session, req, loc>>

\* The finally clause.
Finally(t) ==
  /\ pc[t] = "finally"
  /\ IF req[t].h \in Closes
     THEN /\ session' = SessionClose(db, session)
          /\ obs' = [obs EXCEPT ![t].closed = TRUE]
     ELSE UNCHANGED <<session, obs>>
  /\ pc' = [pc EXCEPT ![t] = "done"]
  /\ UNCHANGED <<db, req, loc, resp>>

\* The response is on the wire; the thread is free again.
Respond(t) ==
  /\ pc[t] = "done"
  /\ pc' = [pc EXCEPT ![t] = "idle"]
  /\ req' = [req EXCEPT ![t] = NoRequest]
  /\ loc' = [loc EXCEPT ![t] = NoLoc]
  /\ resp' = [resp EXCEPT ![t] = NoResp]
  /\ obs' = [obs EXCEPT ![t] = NoObs({})]
  /\ UNCHANGED <<db, session>>

\* The same, the client keeping the request and its answer for its next
\* request.  clean: the server took every statement and every message was
\* delivered.
RespondKeep(t) ==
  /\ pc[t] = "done"
  /\ pc' = [pc EXCEPT ![t] = "idle"]
  /\ req' = [req EXCEPT ![t] = NoRequest]
  /\ loc' = [loc EXCEPT ![t] = NoLoc]
  /\ resp' = [resp EXCEPT ![t] = NoResp]
  /\ obs' = [obs EXCEPT ![t] =
               [NoObs({}) EXCEPT !.prev =
                  [req |-> req[t], status |-> resp[t].status, rows |-> resp[t].rows,
                   clean |-> /\ ~obs[t].down
                             /\ \A i \in 1..Len(obs[t].mails) : obs[t].mails[i].sent]]]
  /\ UNCHANGED <<db, session>>

\* The same, the client keeping only a 200 answer to a GET.
RespondKeepRead(t) ==
  /\ pc[t] = "done"
  /\ pc' = [pc EXCEPT ![t] = "idle"]
  /\ req' = [req EXCEPT ![t] = NoRequest]
  /\ loc' = [loc EXCEPT ![t] = NoLoc]
  /\ resp' = [resp EXCEPT ![t] = NoResp]
  /\ obs' = [obs EXCEPT ![t] =
               [NoObs({}) EXCEPT !.prev =
                  IF req[t].h # "post_records" /\ resp[t].status = 200
                  THEN [req |-> req[t], status |-> 200, rows |-> resp[t].rows,
                        clean |-> TRUE]
                  ELSE NoPrev]]
  /\ UNCHANGED <<db, session>>

\* ------------------------------------------------------- specifications
Arrive(t) == \E r \in Requests : Receive(t, r)

\* Requests served one at a time (a single worker thread).
Next ==
  \/ Arrive(1)
  \/ PostAdd(1)
  \/ PostCommit(1)
  \/ UpdValidate(1)
  \/ UpdExec(1)
  \/ UpdCommit(1)
  \/ DelSelect(1)
  \/ DelDelete(1)
  \/ DelCommit(1)
  \/ MarkQuery(1)
  \/ MarkSet(1)
  \/ MarkCommit(1)
  \/ MarkRefresh(1)
  \/ HistQuery(1)
  \/ ByDateQuery(1)
  \/ NotifySuccess(1)
  \/ Except(1)
  \/ NotifyFailure(1)
  \/ Finally(1)
  \/ Respond(1)

Spec == Init /\ [][Next]_vars

\* Request threads of the threaded server on the one session: thread 1
\* serves batch inserts while the others serve bulk deletes.
ConcBatches ==
  {<<Item(1, 1)>>, <<Item(1, 1), Without(Item(1, 1), "DealerName")>>}
ConcRequests(t) ==
  IF t = 1
  THEN {Request("post_records", bt, NoBody, NoArg, NoArg) : bt \in ConcBatches}
  ELSE {Request("del_record", <<>>, NoBody, Arg("ymd", MaxDate), NoArg)}

ArriveConc(t) == \E r \in ConcRequests(t) : Receive(t, r)

NextConc ==
  \E t \in Threads :
    \/ ArriveConc(t)
    \/ PostAdd(t)
    \/ PostCommit(t)
    \/ DelSelect(t)
    \/ DelDelete(t)
    \/ DelCommit(t)
    \/ NotifySuccess(t)
    \/ Except(t)
    \/ NotifyFailure(t)
    \/ Finally(t)
    \/ Respond(t)

SpecConc == Init /\ [][NextConc]_vars

\* The read endpoints, one request at a time, over a table filled by
\* single-object POST /post-records requests.
LeadBatches == {<<x>> : x \in Leads}
ReadRequests ==
  {Request("post_records", bt, NoBody, NoArg, NoArg) : bt \in LeadBatches}
    \cup HistoricRequests \cup SingleRequests \cup SearchRequests
    \cup ByDateRequests \cup VehicleRequests

ArriveRead(t) == \E r \in ReadRequests : Receive(t, r)

NextRead ==
  \/ ArriveRead(1)
  \/ PostAdd(1)
  \/ PostCommit(1)
  \/ HistQuery(1)
  \/ ByDateQuery(1)
  \/ SingleQuery(1)
  \/ SingleNotFound(1)
  \/ SearchQuery(1)
  \/ VehicleQuery(1)
  \/ NotifySuccess(1)
  \/ Except(1)
  \/ NotifyFailure(1)
  \/ Finally(1)
  \/ Respond(1)

SpecRead == Init /\ [][NextRead]_vars

\* Leads of two dealers, purchased or not, read back by date range, by
\* dealer and by purchase.
LeadsRequests ==
  {Request("post_records", <<x>>, NoBody, NoArg, NoArg) : x \in Deals}
    \cup PurchasedRequests
    \cup {Request("get_historic_leads", <<>>, NoBody, Arg("ymd", 1), Arg("ymd", MaxDate))}

ArriveLeads(t) == \E r \in LeadsRequests : Receive(t, r)

NextLeads ==
  \/ ArriveLeads(1)
  \/ PostAdd(1)
  \/ PostCommit(1)
  \/ HistQuery(1)
  \/ PurchasedQuery(1)
  \/ NotPurchasedQuery(1)
  \/ NotifySuccess(1)
  \/ Except(1)
  \/ NotifyFailure(1)
  \/ Finally(1)
  \/ RespondKeepRead(1)

SpecLeads == Init /\ [][NextLeads]_vars

\* Enquiries sent and not sent to a dealer, read back by dealer.
DealerSpecRequests ==
  {Request("post_records", <<x>>, NoBody, NoArg, NoArg) : x \in DealerLeads}
    \cup DealerRequests

ArriveDealer(t) == \E r \in DealerSpecRequests : Receive(t, r)

NextDealer ==
  \/ ArriveDealer(1)
  \/ PostAdd(1)
  \/ PostCommit(1)
  \/ DealerQuery(1)
  \/ NotifySuccess(1)
  \/ Except(1)
  \/ NotifyFailure(1)
  \/ Finally(1)
  \/ Respond(1)

SpecDealer == Init /\ [][NextDealer]_vars

\* A table that grows one record at a time, the client numbering its
\* enquiries as they come, and the two limited reads.
ArriveLimit(t) ==
  \/ \E r \in LimitRequests : Receive(t, r)
  \/ /\ Cardinality(db) < MaxStored
     /\ Receive(t, Request("post_records", <<Item(Cardinality(db) + 1, 1)>>, NoBody,
                           NoArg, NoArg))

NextLimit ==
  \/ ArriveLimit(1)
  \/ PostAdd(1)
  \/ PostCommit(1)
  \/ LimitEnvQuery(1)
  \/ LimitHardQuery(1)
  \/ NotifySuccess(1)
  \/ Except(1)
  \/ NotifyFailure(1)
  \/ Finally(1)
  \/ Respond(1)

SpecLimit == Init /\ [][NextLimit]_vars

\* Enquiries of two dealers, marked as sent and reset by dealer.
ResetSpecRequests ==
  {Request("post_records", <<x>>, NoBody, NoArg, NoArg) : x \in ResetLeads}
    \cup MarkRequests \cup ResetRequests

ArriveReset(t) == \E r \in ResetSpecRequests : Receive(t, r)

NextReset ==
  \/ ArriveReset(1)
  \/ PostAdd(1)
  \/ PostCommit(1)
  \/ MarkQuery(1)
  \/ MarkSet(1)
  \/ MarkCommit(1)
  \/ MarkRefresh(1)
  \/ ResetQuery(1)
  \/ ResetCommit(1)
  \/ NotifySuccess(1)
  \/ Except(1)
  \/ NotifyFailure(1)
  \/ Finally(1)
  \/ Respond(1)

SpecReset == Init /\ [][NextReset]_vars

\* Every writer of the table: the requests of Spec, the calls of
\* reset_sent_flag and a POST of an object whose MobileNo is null.
StoreRequests ==
  Requests \cup ResetRequests
    \cup {Request("post_records", <<Item(Null, 1)>>, NoBody, NoArg, NoArg)}

ArriveStore(t) == \E r \in StoreRequests : Receive(t, r)

NextStore ==
  \/ ArriveStore(1)
  \/ PostAdd(1)
  \/ PostCommit(1)
  \/ UpdValidate(1)
  \/ UpdExec(1)
  \/ UpdCommit(1)
  \/ DelSelect(1)
  \/ DelDelete(1)
  \/ DelCommit(1)
  \/ MarkQuery(1)
  \/ MarkSet(1)
  \/ MarkCommit(1)
  \/ MarkRefresh(1)
  \/ ResetQuery(1)
  \/ ResetCommit(1)
  \/ HistQuery(1)
  \/ ByDateQuery(1)
  \/ NotifySuccess(1)
  \/ Except(1)
  \/ NotifyFailure(1)
  \/ Finally(1)
  \/ Respond(1)

SpecStore == Init /\ [][NextStore]_vars

\* A client that makes one request after the other and compares each
\* answer with the one before: one object inserted, then read back
\* through every GET route.
RepeatRequests ==
  {Request("post_records", <<Lead(1, 1)>>, NoBody, NoArg, NoArg),
   Request("get_single_record", <<>>, NoBody, Arg("digits", 11), NoArg),
   Request("search_enquiries", <<>>, NoBody, NoArg, Arg("digits", 1)),
   Request("search_enquiries", <<>>, NoBody, NoArg, Arg("junk", 0)),
   Request("get_historic_leads", <<>>, NoBody, Arg("ymd", 1), Arg("ymd", MaxDate)),
   Request("get_enquiries_by_date", <<>>, NoBody, Arg("dmy", 1), Arg("dmy", MaxDate)),
   Request("get_enquiries_by_vehicle_model", <<>>, NoBody, Arg("name", Thar), NoArg)}
    \cup HomeRequests

ArriveRepeat(t) == \E r \in RepeatRequests : Receive(t, r)

NextRepeat ==
  \/ ArriveRepeat(1)
  \/ PostAdd(1)
  \/ PostCommit(1)
  \/ HistQuery(1)
  \/ ByDateQuery(1)
  \/ HomeQuery(1)
  \/ SingleQuery(1)
  \/ SingleNotFound(1)
  \/ SearchQuery(1)
  \/ VehicleQuery(1)
  \/ NotifySuccess(1)
  \/ Except(1)
  \/ NotifyFailure(1)
  \/ Finally(1)
  \/ RespondKeep(1)

SpecRepeat == Init /\ [][NextRepeat]_vars

\* ------------------------------------------------------------ properties
Done(t) == pc[t] = "done"
Handles(t, h) == Done(t) /\ req[t].h = h

\* A batch item without one of the keys the handler reads.
LacksKey(bt) == \E i \in 1..Len(bt) : DOMAIN bt[i] # Columns

\* A batch item whose MobileNo is already stored in d or repeated earlier
\* in the batch.
Collides(bt, d) ==
  \E i \in 1..Len(bt) :
    /\ "MobileNo" \in DOMAIN bt[i]
    /\ \/ \E r \in d : r.MobileNo = bt[i].MobileNo
       \/ \E j \in 1..(i - 1) :
            "MobileNo" \in DOMAIN bt[j] /\ bt[j].MobileNo = bt[i].MobileNo

\* C1: a POST /post-records batch with an item that lacks a required key or
\* whose MobileNo is already stored or repeated in the batch fails, and the
\* table afterwards holds exactly the rows it held before the request.
C1_BatchAllOrNothing ==
  \A t \in Threads :
    (Handles(t, "post_records")
       /\ (LacksKey(req[t].batch) \/ Collides(req[t].batch, obs[t].pre)))
    => (resp[t].status >= 400 /\ db = obs[t].pre)

\* A two-item batch, a complete item and then one lacking a key, has been
\* refused over a table that was not empty.
C1_Witness ==
  \E t \in Threads :
    /\ Handles(t, "post_records")
    /\ Len(req[t].batch) = 2
    /\ DOMAIN req[t].batch[1] = Columns
    /\ DOMAIN req[t].batch[2] # Columns
    /\ req[t].batch[1].MobileNo \notin Keys(obs[t].pre)
    /\ obs[t].pre # {}
    /\ resp[t].status = 500

\* C2: a thread's uncommitted work (objects it added or changed, statements
\* it ran in the open transaction) leaves the session, by commit or by
\* discard, only in a step of that thread.
C2_SessionPerRequest ==
  [][\A u \in Threads :
       (u \in Uncommitted(session) /\ u \notin Uncommitted(session'))
         => pc'[u] # pc[u]]_vars

\* The stored value a body's value becomes in column c.
Stored(c, v) == IF c \in DateColumns THEN v.n ELSE v

\* C3: after a successful PUT /update-record the row of the given MobileNo
\* has the supplied value in every field the body names and its previous
\* value in every other field, and every other row is as it was.
C3_UpdateWritesSuppliedOnly ==
  \A t \in Threads :
    (Handles(t, "update_record") /\ resp[t].status = 200)
    => LET f == req[t].body.fields
           named == {KeyAttr[k] : k \in DOMAIN f} IN
       \E old \in obs[t].pre, new \in db :
         /\ old.MobileNo = req[t].body.mobileno.n
         /\ \A k \in DOMAIN f : new[KeyAttr[k]] = Stored(KeyAttr[k], f[k])
         /\ \A c \in Columns \ named : new[c] = old[c]
         /\ db \ {new} = obs[t].pre \ {old}

\* An update of two fields has succeeded next to another stored row.
C3_Witness ==
  \E t \in Threads :
    /\ Handles(t, "update_record")
    /\ resp[t].status = 200
    /\ Cardinality(DOMAIN req[t].body.fields) = 2
    /\ Cardinality(obs[t].pre) = 2
    /\ db # obs[t].pre

\* C4: the response is the one of the return that follows the first
\* notification call, whether or not the mail server took the message.
C4_NotificationNeverChangesResponse ==
  \A t \in Threads :
    (Done(t) /\ obs[t].mails # <<>>)
    => /\ resp[t].status = obs[t].intended
       /\ resp[t].body = IF obs[t].intended \in {200, 201} THEN "ok" ELSE "error"

\* C5: when a handler returns, it has closed the session.
C5_SessionClosedOnEveryPath ==
  \A t \in Threads : Done(t) => obs[t].closed

\* Every notification of the request reached the mail server.
Delivered(t) == \A i \in 1..Len(obs[t].mails) : obs[t].mails[i].sent

\* C6: a store-layer or unexpected failure raised in a handler is caught,
\* rolled back with session.rollback() and answered 500 with a JSON error
\* body (stated for the requests whose notifications were delivered, so
\* that the answer is the handler's own).
C6_FailuresRolledBackAnd500 ==
  \A t \in Threads :
    (Done(t) /\ loc[t].exc \in {"SQLAlchemyError", "Exception"} /\ Delivered(t))
    => (obs[t].rolled /\ resp[t].status = 500 /\ resp[t].body = "error")

\* A body PUT /update-record must refuse: no mobileno, a mobileno that is
\* no integer, or no field besides mobileno.
Unacceptable(b) ==
  /\ b.shape = "object"
  /\ \/ b.mobileno.k = "absent"
     \/ b.mobileno.k \in {"junk", "array"}
     \/ DOMAIN b.fields = {}

\* C7: PUT /update-record answers such a body 400, issues no UPDATE and
\* leaves the table as it was.
C7_UpdateValidatesFirst ==
  \A t \in Threads :
    (Handles(t, "update_record") /\ Unacceptable(req[t].body))
    => (resp[t].status = 400 /\ "update" \notin obs[t].stmts /\ db = obs[t].pre)

\* C8: DELETE /del-single-record without expecteddateofpurchase is answered
\* 400 and runs neither the SELECT nor the DELETE.
C8_DeleteRequiresCutoff ==
  \A t \in Threads :
    (Handles(t, "del_record") /\ req[t].a.k = "absent")
    => (resp[t].status = 400 /\ obs[t].stmts \cap {"select", "delete"} = {})

\* Both dates are given and one of them is not in the endpoint's format.
BadDate(r, format) ==
  /\ r.a.k \notin {"absent", "empty"}
  /\ r.b.k \notin {"absent", "empty"}
  /\ (r.a.k # format \/ r.b.k # format)

\* C9: a date that does not parse is answered 400 by GET /historic-leads
\* (YYYY-MM-DD) and by GET /get-enquiries-by-date (DD-MM-YYYY).
C9_BadDateIs400 ==
  \A t \in Threads :
    (\/ Handles(t, "get_historic_leads") /\ BadDate(req[t], "ymd")
     \/ Handles(t, "get_enquiries_by_date") /\ BadDate(req[t], "dmy"))
    => resp[t].status = 400

StoreUp(t) == ~obs[t].down

\* C11: a successful GET /historic-leads returns exactly the stored records
\* with startdate <= CreatedDate <= enddate, both bounds included.
C11_HistoricRangeInclusive ==
  \A t \in Threads :
    (Handles(t, "get_historic_leads") /\ resp[t].status = 200)
    => LET lo == req[t].a.n
           hi == req[t].b.n IN
       /\ resp[t].rows =
            {ItemDict(r) : r \in {x \in obs[t].pre : lo <= x.CreatedDate /\ x.CreatedDate <= hi}}
       /\ resp[t].count = Cardinality(resp[t].rows)

\* A range with startdate < enddate has returned the record created on
\* startdate and the one created on enddate.
C11_Witness ==
  \E t \in Threads :
    /\ Handles(t, "get_historic_leads")
    /\ resp[t].status = 200
    /\ req[t].a.n < req[t].b.n
    /\ \E r \in resp[t].rows : r.CreatedDate = Isoformat(req[t].a.n)
    /\ \E r \in resp[t].rows : r.CreatedDate = Isoformat(req[t].b.n)

\* C12: a GET /get-single-record for a leadid no record carries, and a
\* GET /search-enquiries whose filters match no record, are answered 404
\* with no record, leave the table as it was and are not treated as a
\* store error: no rollback, no 500 (the server taking every statement).
C12_EmptyLookupIs404 ==
  \A t \in Threads :
    (/\ StoreUp(t)
     /\ \/ /\ Handles(t, "get_single_record")
           /\ req[t].a.k = "digits"
           /\ \A r \in obs[t].pre : r.LeadId # req[t].a.n
        \/ /\ Handles(t, "search_enquiries")
           /\ req[t].b.k # "junk"
           /\ \A r \in obs[t].pre : ~SearchMatches(r, req[t]))
    => /\ resp[t].status = 404
       /\ resp[t].rows = {}
       /\ db = obs[t].pre
       /\ ~obs[t].rolled

\* C13: GET /get-enquiries-by-date with two DD-MM-YYYY dates is answered 200
\* with total_count the number of records created in the closed range, and
\* with total_count 0 and no enquiry when there is none (the server taking
\* every statement).
C13_ByDateEmptyIs200 ==
  \A t \in Threads :
    (/\ Handles(t, "get_enquiries_by_date")
     /\ req[t].a.k = "dmy" /\ req[t].b.k = "dmy"
     /\ StoreUp(t))
    => LET in == {r \in obs[t].pre :
                   req[t].a.n <= r.CreatedDate /\ r.CreatedDate <= req[t].b.n} IN
       /\ resp[t].status = 200
       /\ resp[t].count = Cardinality(in)
       /\ resp[t].rows = {record_to_dict(r) : r \in in}

\* text contains x
Contains(text, x) ==
  \E i \in 0..(Len(text) - Len(x)) : SubSeq(text, i + 1, i + Len(x)) = x

\* The records the claim has GET /get-enquiries-by-vehicle-model return.
VehicleExpected(rows, a, b) ==
  {r \in rows : IF b.k = "flag" /\ b.n = "true"
                THEN Contains(r.VehicleModel, a.n)
                ELSE Contains(Lower(r.VehicleModel), Lower(a.n))}

\* C14: whenever GET /get-enquiries-by-vehicle-model answers 200 or 404, it
\* has answered 200 with exactly the records whose VehicleModel contains
\* vehicle_model (compared in lower case unless case_sensitive is true), or
\* 404 when there is no such record.
C14_VehicleModelSubstring ==
  \A t \in Threads :
    (Handles(t, "get_enquiries_by_vehicle_model") /\ resp[t].status \in {200, 404})
    => LET want == VehicleExpected(obs[t].pre, req[t].a, req[t].b) IN
       IF want = {} THEN resp[t].status = 404 /\ resp[t].rows = {}
       ELSE /\ resp[t].status = 200
            /\ resp[t].rows = {record_to_dict(r) : r \in want}
            /\ resp[t].count = Cardinality(want)

\* C15: a request that has been served has called the mail dispatch exactly
\* once, whatever its outcome.
C15_OneNotificationPerRequest ==
  \A t \in Threads : Done(t) => Len(obs[t].mails) = 1

\* The JSON object x as the read endpoints are to give it back: every
\* value as inserted, the two dates as 'YYYY-MM-DD'.
ReadBack(x) ==
  [c \in Columns |->
     IF c \in DateColumns /\ x[c] # Null THEN Arg("ymd", x[c]) ELSE x[c]]

\* The request before this one was a POST /post-records answered 201.
AfterInsert(t) ==
  /\ obs[t].prev.req.h = "post_records"
  /\ obs[t].prev.status = 201

GetHandlers ==
  {"get_historic_leads", "get_enquiries_by_date", "get_home_page1",
   "get_single_record", "search_enquiries", "get_enquiries_by_vehicle_model"}

\* This request is the GET the client made just before, made again; the
\* server took every statement of both and delivered every message.
Repeated(t) ==
  /\ Done(t)
  /\ req[t].h \in GetHandlers
  /\ obs[t].prev.req = req[t]
  /\ obs[t].prev.clean
  /\ StoreUp(t)
  /\ Delivered(t)

\* C17: a GET leaves the table as it found it, and the same GET made
\* again right after it gets the same status and the same set of records.
C17_ReadsIdempotent ==
  \A t \in Threads :
    /\ (Done(t) /\ req[t].h \in GetHandlers) => db = obs[t].pre
    /\ Repeated(t) => /\ resp[t].status = obs[t].prev.status
                      /\ resp[t].rows = obs[t].prev.rows

\* A PUT /update-record that passes every check of the handler and names
\* columns with values of their types, for a mobileno no record has.
UpdateOfUnknown(t) ==
  LET b == req[t].body IN
  /\ Handles(t, "update_record")
  /\ b.shape = "object"
  /\ ~FalsyJson(b.mobileno)
  /\ PyInt(b.mobileno).exc = "none"
  /\ DOMAIN b.fields # {}
  /\ KnownKeys(b.fields)
  /\ WellTyped(b.fields)
  /\ \A r \in obs[t].pre : r.MobileNo # PyInt(b.mobileno).n

\* C18: a well-formed PUT /update-record whose mobileno matches no stored
\* record is answered 404, not 500, commits nothing and leaves the table
\* as it was (stated for the requests whose statements the server took).
C18_UpdateUnknownIs404 ==
  \A t \in Threads :
    (UpdateOfUnknown(t) /\ StoreUp(t))
    => /\ resp[t].status = 404
       /\ "commit" \notin obs[t].stmts
       /\ db = obs[t].pre

\* The record r marked as sent to its dealer.
Sent(r) == [r EXCEPT !.SentToDealer = True]

\* C19: PUT /mark-sent-to-dealer with the mobileno of a stored record sets
\* SentToDealer on that record alone, commits and answers 200 with the
\* updated record (so that a second call leaves the table as the first
\* did); without a mobileno it answers 400 and with a mobileno no record
\* has 404, the table unchanged (stated for the requests whose statements
\* the server took).
C19_MarkSentToDealer ==
  \A t \in Threads :
    (Handles(t, "mark_sent_to_dealer") /\ StoreUp(t))
    => LET a == req[t].a
           hit == {r \in obs[t].pre : r.MobileNo = a.n} IN
       /\ Falsy(a) => (resp[t].status = 400 /\ db = obs[t].pre)
       /\ (a.k = "digits" /\ hit = {}) => (resp[t].status = 404 /\ db = obs[t].pre)
       /\ (a.k = "digits" /\ hit # {})
            => /\ resp[t].status = 200
               /\ resp[t].rows = {record_to_dict(Sent(r)) : r \in hit}
               /\ "commit" \in obs[t].stmts
               /\ db = (obs[t].pre \ hit) \cup {Sent(r) : r \in hit}

\* The records the claim has GET /search-enquiries return: those that meet
\* the predicate of every parameter that is present.
SearchExpected(rows, q) ==
  {r \in rows :
     /\ Falsy(q.a) \/ Contains(Lower(r.CustomerName), Lower(q.a.n))
     /\ Falsy(q.b) \/ r.MobileNo = q.b.n
     /\ Falsy(q.c) \/ r.Email = q.c.n}

\* C20: whenever GET /search-enquiries answers 200 or 404, it has answered
\* 200 with exactly the records whose CustomerName contains customername
\* (case ignored), whose MobileNo is mobileno and whose Email is email, a
\* parameter that is absent setting no condition, or 404 when there is no
\* such record.
C20_SearchConjunction ==
  \A t \in Threads :
    (Handles(t, "search_enquiries") /\ resp[t].status \in {200, 404})
    => LET want == SearchExpected(obs[t].pre, req[t]) IN
       IF want = {} THEN resp[t].status = 404 /\ resp[t].rows = {}
       ELSE /\ resp[t].status = 200
            /\ resp[t].rows = {record_to_dict(r) : r \in want}

\* The records the claim has a read by dealer and purchase return.
PurchasedExpected(rows, q, flag) ==
  {r \in rows : /\ r.CreatedDate # Null
                /\ q.a.n <= r.CreatedDate /\ r.CreatedDate <= q.b.n
                /\ r.DealerCode = q.c.n
                /\ r.IsPurchased = flag}

\* C21: a GET /purchased-historic-leads without startdate, enddate or
\* dealercode is answered 400 with no record; answered 200, it carries
\* exactly the stored records created from startdate to enddate, of dealer
\* dealercode, whose IsPurchased is true.
C21_PurchasedLeadsOnly ==
  \A t \in Threads :
    Handles(t, "get_purchased_leads")
    => /\ (Falsy(req[t].a) \/ Falsy(req[t].b) \/ Falsy(req[t].c))
            => (resp[t].status = 400 /\ resp[t].rows = {})
       /\ resp[t].status = 200
            => /\ resp[t].rows =
                    {ItemDict(r) : r \in PurchasedExpected(obs[t].pre, req[t], True)}
               /\ resp[t].count = Cardinality(resp[t].rows)

\* A 200 answer has carried a purchased record and left out a record of
\* the same dealer and range that is not purchased or whose IsPurchased is
\* unset.
C21_Witness ==
  \E t \in Threads :
    /\ Handles(t, "get_purchased_leads")
    /\ resp[t].status = 200
    /\ resp[t].rows # {}
    /\ \E r \in obs[t].pre :
         /\ r.IsPurchased # True
         /\ r.DealerCode = req[t].c.n
         /\ r.CreatedDate <= req[t].b.n

\* This request and the one before it, both answered 200, name the same
\* dates; the table has not changed in between.
SameDates(t) ==
  /\ Done(t)
  /\ resp[t].status = 200
  /\ obs[t].prev.status = 200
  /\ obs[t].prev.req.a = req[t].a
  /\ obs[t].prev.req.b = req[t].b

LeadsHandlers == {"get_purchased_leads", "get_not_purchased_leads"}

\* C29: for the same dates and dealer on an unchanged table, the purchased
\* leads are the historic leads of that dealer whose IsPurchased is true
\* and the not-purchased leads those whose IsPurchased is false (so both
\* are part of the historic leads, their union is the historic leads of
\* the dealer with IsPurchased set, and a record with IsPurchased unset is
\* in neither), and the two results have no record in common.
C29_PurchasedPartition ==
  \A t \in Threads :
    SameDates(t)
    => /\ (obs[t].prev.req.h = "get_historic_leads" /\ req[t].h = "get_purchased_leads")
            => resp[t].rows = {r \in obs[t].prev.rows :
                                 r.DealerCode = req[t].c.n /\ r.IsPurchased = True}
       /\ (obs[t].prev.req.h = "get_historic_leads" /\ req[t].h = "get_not_purchased_leads")
            => resp[t].rows = {r \in obs[t].prev.rows :
                                 r.DealerCode = req[t].c.n /\ r.IsPurchased = False}
       /\ ({obs[t].prev.req.h, req[t].h} = LeadsHandlers /\ obs[t].prev.req.c = req[t].c)
            => resp[t].rows \cap obs[t].prev.rows = {}

\* The purchased leads have followed the historic leads with a record and
\* left out a record of the dealer with IsPurchased unset.
C29_Witness ==
  \E t \in Threads :
    /\ SameDates(t)
    /\ obs[t].prev.req.h = "get_historic_leads"
    /\ req[t].h = "get_purchased_leads"
    /\ resp[t].rows # {}
    /\ \E r \in obs[t].prev.rows :
         r.DealerCode = req[t].c.n /\ r.IsPurchased = None

\* The records the claim has GET /dealer-interactions return.
DealerExpected(rows, q) ==
  {r \in rows :
     /\ r.SentToDealer = True
     /\ Falsy(q.a) \/ Contains(Lower(r.DealerName), Lower(q.a.n))
     /\ Falsy(q.b) \/ r.DealerState = q.b.n
     /\ Falsy(q.c) \/ r.DealerTown = q.c.n}

\* C22: whenever GET /dealer-interactions answers 200 or 404, it has
\* answered 200 with exactly the records whose SentToDealer is true, whose
\* DealerName contains dealername (case ignored), whose DealerState is
\* dealerstate and whose DealerTown is dealertown, a parameter that is
\* absent setting no condition, or 404 when there is no such record.
C22_DealerInteractionsSentOnly ==
  \A t \in Threads :
    (Handles(t, "dealer_interactions") /\ resp[t].status \in {200, 404})
    => LET want == DealerExpected(obs[t].pre, req[t]) IN
       IF want = {} THEN resp[t].status = 404 /\ resp[t].rows = {}
       ELSE /\ resp[t].status = 200
            /\ resp[t].rows = {record_to_dict(r) : r \in want}

\* min(x, y) and max(x, y)
Min(x, y) == IF x <= y THEN x ELSE y
Max(x, y) == IF x >= y THEN x ELSE y

\* C23: answered 200, GET /get-limited-records-by-hard-coding carries
\* max(0, min(3, n - 2)) of the n stored records and GET
\* /get-limited-records-by-env-variable min(LIMIT, n) of them, LIMIT being
\* 10 when the environment does not set it; total_count is the number of
\* records carried and each of them is a stored record.
C23_LimitedSlice ==
  \A t \in Threads :
    (Done(t) /\ resp[t].status = 200)
    => LET n == Cardinality(obs[t].pre) IN
       /\ req[t].h = "get_limited_records_by_hard_coding"
            => /\ Cardinality(resp[t].rows) = Max(0, Min(3, n - 2))
               /\ resp[t].count = Cardinality(resp[t].rows)
               /\ resp[t].rows \subseteq {ItemDict(r) : r \in obs[t].pre}
       /\ req[t].h = "get_limited_records_using_env_variable"
            => /\ Cardinality(resp[t].rows) =
                    Min(IF req[t].a = NoArg THEN 10 ELSE req[t].a.n, n)
               /\ resp[t].count = Cardinality(resp[t].rows)
               /\ resp[t].rows \subseteq {ItemDict(r) : r \in obs[t].pre}

\* With more than ten records stored and LIMIT not set, the slice has
\* been cut to the default limit.
C23_Witness ==
  \E t \in Threads :
    /\ Done(t)
    /\ resp[t].status = 200
    /\ req[t].h = "get_limited_records_using_env_variable"
    /\ req[t].a = NoArg
    /\ Cardinality(obs[t].pre) > 10
    /\ resp[t].count = 10

\* The table after the reset of dealer dc.
ResetExpected(rows, dc) ==
  {IF r.DealerCode = dc THEN [r EXCEPT !.SentToDealer = False] ELSE r : r \in rows}

\* C24: a finished reset_sent_flag(dealercode) has closed the session;
\* when nothing failed, every record of that dealer has SentToDealer false
\* and the table is otherwise as it was; when a statement or the commit
\* failed, it has rolled back and the table is as it was.
C24_ResetSentFlag ==
  \A t \in Threads :
    Handles(t, "reset_sent_flag")
    => /\ obs[t].closed
       /\ loc[t].exc = "none" => db = ResetExpected(obs[t].pre, req[t].a.n)
       /\ loc[t].exc # "none" => (obs[t].rolled /\ db = obs[t].pre)

\* A reset has changed the table and left a record of the other dealer
\* marked as sent.
C24_Witness ==
  \E t \in Threads :
    /\ Handles(t, "reset_sent_flag")
    /\ loc[t].exc = "none"
    /\ db # obs[t].pre
    /\ \E r \in db : r.DealerCode # req[t].a.n /\ r.SentToDealer = True

\* C25: in every state no two stored records share a MobileNo and every
\* stored record has one, in the table and in what the open transaction
\* sees.
C25_MobileNoUnique ==
  /\ \A r \in db \cup session.tx : r.MobileNo # Null
  /\ \A r1, r2 \in db : r1.MobileNo = r2.MobileNo => r1 = r2
  /\ \A r1, r2 \in session.tx : r1.MobileNo = r2.MobileNo => r1 = r2

\* A POST of an object whose MobileNo a stored record has, or is null, has
\* been refused and has left the table as it was.
C25_Witness ==
  \E t \in Threads :
    /\ Handles(t, "post_records")
    /\ Len(req[t].batch) = 1
    /\ HasAllKeys(req[t].batch[1])
    /\ req[t].batch[1].MobileNo \in Keys(obs[t].pre)
    /\ req[t].batch[1] \notin obs[t].pre
    /\ StoreUp(t)
    /\ "commit" \in obs[t].stmts
    /\ resp[t].status = 500
    /\ db = obs[t].pre
    /\ db # {}

\* The handlers that are to leave the set of stored MobileNo values alone.
KeepsKeys ==
  {"update_record", "mark_sent_to_dealer", "reset_sent_flag", "get_historic_leads",
   "get_enquiries_by_date"}

\* C30: a finished request has changed the set of stored MobileNo values
\* only if it is a POST /post-records, which has only added to it, or a
\* DELETE /del-single-record, which has only removed from it.
C30_KeysChangeOnlyByPostAndDelete ==
  \A t \in Threads :
    Done(t)
    => /\ req[t].h \in KeepsKeys => Keys(db) = Keys(obs[t].pre)
       /\ req[t].h = "post_records" => Keys(obs[t].pre) \subseteq Keys(db)
       /\ req[t].h = "del_record" => Keys(db) \subseteq Keys(obs[t].pre)

\* The set of writing routes.
Mutations == {"post_records", "update_record", "mark_sent_to_dealer", "del_record"}

\* C26: a finished POST /post-records, PUT /update-record, PUT
\* /mark-sent-to-dealer or DELETE /del-single-record answered 500 has left
\* the table as it found it.
C26_StatusAgreesWithStore ==
  \A t \in Threads :
    (Done(t) /\ req[t].h \in Mutations /\ resp[t].status = 500)
    => db = obs[t].pre

\* C28: between requests the session is usable: no request has left it in
\* a failed transaction.
C28_SessionUsableAfterFailure ==
  \A t \in Threads : Done(t) => session.state # "inactive"

\* C27: a DELETE /del-single-record answered 200 reports as deleted_count
\* the number of records of the snapshot taken before the delete, whatever
\* the other request threads do between the two statements.
C27_DeletedCountIsSnapshot ==
  \A t \in Threads :
    (Handles(t, "del_record") /\ resp[t].status = 200)
    => resp[t].count = Cardinality(resp[t].rows)

====
